---- MODULE Spec2Model ----
(***************************************************************************)
(* A model of statcan's client module (src/src/statcan/client.py):         *)
(*   - MetadataDatabase: load() into an sqlite table and search() over it  *)
(*     with the user-defined SQL function MATCHES (re.search);             *)
(*   - CSVContents.get_df_pandas / get_df_polars: the REF_DATE wrangling;  *)
(*   - CSVContents.dataset_name: the name read from the metadata blob.     *)
(* Text is a sequence of one-character strings, so that regular-expression *)
(* search, CSV decoding and date construction are computed character by    *)
(* character.                                                              *)
(***************************************************************************)
EXTENDS Integers, Sequences, FiniteSets, TLC

VARIABLES
    \* ---- MetadataDatabase ----
    path,        \* self.path: "file" (a database file) or "memory" (":memory:")
    hasBackend,  \* _has_pandas or _has_polars
    source,      \* the rows the dataset_url serves (CSV cells, in column order)
    dbFile,      \* what is committed in the database file at self.path
    connection,  \* self.connection: unset, or the open sqlite3 connection
    orphanLock,  \* an unreachable, not yet finalized connection still holds the file's write lock
    loaded,      \* number of load() calls that returned normally
    op,          \* the most recent call: "new", "load" or "search"
    outcome,     \* how the most recent call ended: "ok" or the exception raised
    keywords,    \* the KEYWORD arguments of this run, passed to search() as *args
    results,     \* the records the most recent search() returned
    \* ---- CSVContents ----
    metadata,    \* self.metadata, the sidecar blob
    nameCache,   \* cached_property storage of dataset_name
    nameOutcome, \* how the most recent dataset_name access ended
    name,        \* the value the most recent dataset_name access returned
    table,       \* self.table, parsed: [header, rows]
    entry,       \* the most recent normalization entry point: "none", "pandas", "polars"
    dfOutcome,   \* how the most recent get_df_* call ended
    df           \* the data frame the most recent get_df_* call returned

catalogVars == <<path, hasBackend, source, dbFile, connection, orphanLock, loaded,
                 op, outcome, keywords, results>>
nameVars == <<metadata, nameCache, nameOutcome, name>>
frameVars == <<table, entry, dfOutcome, df>>
vars == <<catalogVars, nameVars, frameVars>>

\* ------------------------------------------------------------------ bounds
MaxLoads == 2
MaxKeywords == 2
MaxBlobLen == 4
MaxRows == 2

\* ------------------------------------------------------------------ text
\* Python's None / SQL NULL: distinct from every sequence of characters.
None == <<"None">>

\* A sequence without its first n elements.
Drop(s, n) == SubSeq(s, n + 1, Len(s))

\* ------------------------------------------------------------------ re.search
\* Nesting depth of the pattern after its first k characters.
Depth(p, k) ==
    Cardinality({i \in 1..k : p[i] = "("}) - Cardinality({i \in 1..k : p[i] = ")"})

\* re.compile accepts the pattern (of literals, ".", "|" and groups): the
\* parentheses balance.  Otherwise re.search raises re.error.
ReValid(p) ==
    /\ \A k \in 1..Len(p) : Depth(p, k) >= 0
    /\ Depth(p, Len(p)) = 0

\* The branches of an alternation: the pieces between its top-level "|".
Alternatives(p) ==
    LET bars == {k \in 1..Len(p) : p[k] = "|" /\ Depth(p, k) = 0}
        cuts == bars \cup {0, Len(p) + 1}
    IN  {SubSeq(p, a + 1, b - 1) :
            <<a, b>> \in {c \in cuts \X cuts :
                            c[1] < c[2] /\ \A k \in cuts : ~(c[1] < k /\ k < c[2])}}

\* Length of the first atom of a non-empty branch: a group up to its closing
\* parenthesis, or one character.
AtomLen(p) ==
    IF p[1] = "("
    THEN CHOOSE k \in 1..Len(p) : Depth(p, k) = 0 /\ \A j \in 1..(k - 1) : Depth(p, j) > 0
    ELSE 1

RECURSIVE MatchAlt(_, _, _), MatchCat(_, _, _)
\* The positions at which a match of alternation p starting at s[i] can end.
MatchAlt(p, s, i) == UNION {MatchCat(a, s, i) : a \in Alternatives(p)}

\* The same for one branch: its atoms matched one after the other.  "."
\* matches any character, every other character matches itself only (the
\* search is case-sensitive: no re.IGNORECASE flag is passed).
MatchCat(p, s, i) ==
    IF p = <<>> THEN {i}
    ELSE LET n == AtomLen(p)
             first == IF p[1] = "("
                      THEN MatchAlt(SubSeq(p, 2, n - 1), s, i)
                      ELSE IF i <= Len(s) /\ (p[1] = "." \/ p[1] = s[i])
                           THEN {i + 1} ELSE {}
         IN  UNION {MatchCat(Drop(p, n), s, j) : j \in first}

\* re.search(expr, item) is not None, for a valid expr.
ReSearch(expr, item) == \E i \in 1..(Len(item) + 1) : MatchAlt(expr, item, i) # {}

\* Lower case of the letters the catalogue samples capitalize.
LowerChar(c) ==
    CASE c = "H" -> "h" [] c = "P" -> "p" [] c = "S" -> "s"
      [] c = "N" -> "n" [] c = "E" -> "e" [] OTHER -> c
Lower(s) == [i \in 1..Len(s) |-> LowerChar(s[i])]

\* match as it would be with re.IGNORECASE.
matchIgnoreCase(expr, item) ==
    IF item = None THEN FALSE ELSE ReSearch(Lower(expr), Lower(item))

\* match(expr, item), the function registered as MATCHES.
match(expr, item) ==
    IF item = None THEN FALSE ELSE ReSearch(expr, item)

\* match raises (re.error) instead of returning.
matchRaises(expr, item) == item # None /\ ~ReValid(expr)

\* ------------------------------------------------------------------ catalog inputs
\* Keywords a caller passes to search().
KeywordSamples ==
    { <<"h", "o", "u", "s", "i", "n", "g">>,
      <<"z", "z", "z">>,
      <<"H", ".", "u">>,
      <<"(">> }

\* The keywords of the catalogue example: two titles, in lower case and as
\* the titles spell them, and a word no entry holds.
ExampleKeywords ==
    { <<"h", "o", "u", "s", "i", "n", "g">>,
      <<"H", "o", "u", "s", "i", "n", "g">>,
      <<"p", "o", "p", "u", "l", "a", "t", "i", "o", "n">>,
      <<"P", "o", "p", "u", "l", "a", "t", "i", "o", "n">>,
      <<"z", "z", "z">> }

\* Keyword sequences of at most n keywords out of K.
KeywordSeqs(K, n) == UNION {[1..k -> K] : k \in 0..n}

\* Rows served by the dataset_url, cells in the order title, id, description,
\* release_date, lang; an empty cell is <<>>.
HousingStarts ==
    <<<<"H", "o", "u", "s", "i", "n", "g", " ", "S", "t", "a", "r", "t", "s">>,
      <<"3", "4", "-", "1", "0", "-", "0", "1", "3", "5">>, <<"N", "e", "w", " ", "d", "w", "e", "l", "l", "i", "n", "g", "s">>,
      <<"2", "0", "2", "4", "-", "0", "1", "-", "1", "6">>, <<"e", "n">>>>
Population ==
    <<<<"P", "o", "p", "u", "l", "a", "t", "i", "o", "n">>,
      <<"1", "7", "-", "1", "0", "-", "0", "0", "0", "5">>, <<"E", "s", "t", "i", "m", "a", "t", "e", "s">>,
      <<"2", "0", "2", "3", "-", "0", "9", "-", "2", "7">>, <<"e", "n">>>>
NoDescription == <<<<"z", "z", "z">>, <<"1", "0", "-", "1", "0", "-", "0", "0", "0", "1">>, <<>>, <<"2", "0", "2", "0", "-", "0", "5", "-", "0", "1">>, <<"e", "n">>>>
NoTitle ==
    <<<<>>, <<"1", "0", "-", "1", "0", "-", "0", "0", "0", "2">>,
      <<"H", "o", "u", "s", "i", "n", "g", " ", "S", "t", "a", "r", "t", "s">>,
      <<"2", "0", "2", "0", "-", "0", "5", "-", "0", "2">>, <<"f", "r">>>>
Blank == <<<<>>, <<"1", "0", "-", "1", "0", "-", "0", "0", "0", "3">>, <<>>, <<"2", "0", "2", "0", "-", "0", "5", "-", "0", "3">>, <<"f", "r">>>>

ExampleSource == <<HousingStarts, Population>>

SourceSamples ==
    { ExampleSource,
      <<NoDescription, NoTitle, Blank>>,
      <<Population, Blank, Population>> }

\* ------------------------------------------------------------------ MetadataDatabase
\* pd.read_csv(...).values.tolist() / pl.read_csv(...).rows(): one tuple per
\* row, an empty cell read as NaN / null, which sqlite3 binds as NULL.
ReadCell(c) == IF c = <<>> THEN None ELSE c
ReadRows(src) == [i \in 1..Len(src) |-> [j \in 1..5 |-> ReadCell(src[i][j])]]

\* INSERT INTO statcan (title, data_id, description, release_date, lang)
\* VALUES (?, ?, ?, ?, ?) for the k-th row of one executemany, seq being the
\* largest _id handed out so far (AUTOINCREMENT).
InsertedRow(row, seq, k) ==
    [_id |-> seq + k, title |-> row[1], data_id |-> row[2], description |-> row[3],
     release_date |-> row[4], lang |-> row[5]]

NoConnection == [open |-> FALSE, rows |-> {}, seq |-> 0, writer |-> FALSE]

\* The rows of table statcan a connection sees: what is committed in the file
\* (nothing for a private in-memory database) and its own uncommitted inserts.
Visible(conn) == (IF path = "file" THEN dbFile.rows ELSE {}) \cup conn.rows

\* A scan that visits the rows by descending rowid.
RECURSIVE TableScanDescending(_)
TableScanDescending(T) ==
    IF T = {} THEN <<>>
    ELSE LET r == CHOOSE r \in T : \A q \in T : r._id >= q._id
         IN  <<r>> \o TableScanDescending(T \ {r})

\* The order in which a full scan of the table visits the rows: by rowid (_id).
RECURSIVE TableScan(_)
TableScan(T) ==
    IF T = {} THEN <<>>
    ELSE LET r == CHOOSE r \in T : \A q \in T : r._id <= q._id
         IN  <<r>> \o TableScan(T \ {r})

\* "|".join(args)
RECURSIVE Join(_)
Join(args) ==
    IF args = <<>> THEN <<>>
    ELSE IF Len(args) = 1 THEN args[1]
    ELSE args[1] \o <<"|">> \o Join(Tail(args))

\* keywords_or = "(" + "|".join(args) + ")"
KeywordsOr(args) == <<"(">> \o Join(args) \o <<")">>

\* The condition with the description left out, and with AND for OR.
WhereTitleOnly(expr, r) == match(expr, r.title)
WhereAnd(expr, r) == match(expr, r.title) /\ match(expr, r.description)

\* WHERE MATCHES(?, title) OR MATCHES(?, description)
Where(expr, r) == match(expr, r.title) \/ match(expr, r.description)
WhereRaises(expr, r) == matchRaises(expr, r.title) \/ matchRaises(expr, r.description)

\* SELECT title, data_id, description, release_date, lang, under the column
\* names search() gives the frame.
Selected(r) ==
    [title |-> r.title, id |-> r.data_id, description |-> r.description,
     release_date |-> r.release_date, lang |-> r.lang]

RECURSIVE Project(_)
Project(rs) == IF rs = <<>> THEN <<>> ELSE <<Selected(Head(rs))>> \o Project(Tail(rs))

\* The statement's result: the selected columns of the rows the scan keeps.
FetchAll(expr, T) ==
    LET keep(r) == Where(expr, r) IN Project(SelectSeq(TableScan(T), keep))

\* load() when the GET fails: raise_for_status() raises before anything is touched.
LoadHttpError ==
    /\ op' = "load"
    /\ outcome' = "HTTPStatusError"
    /\ UNCHANGED <<path, hasBackend, source, dbFile, connection, orphanLock, loaded,
                   keywords, results, nameVars, frameVars>>

\* load() with neither pandas nor polars installed.
LoadNoBackend ==
    /\ ~hasBackend
    /\ op' = "load"
    /\ outcome' = "RuntimeError"
    /\ UNCHANGED <<path, hasBackend, source, dbFile, connection, orphanLock, loaded,
                   keywords, results, nameVars, frameVars>>

\* The rest of load(): a new connection replaces self.connection, the table is
\* created if missing (DDL is committed at once), the rows are inserted in a
\* transaction that load() never commits.  The connection replaced is closed,
\* rolling its inserts back and releasing its lock, only when the garbage
\* collector finalizes it: finalized says whether that has happened by the
\* time of the INSERT.
LoadRows(finalized) ==
    LET rows == ReadRows(source)
        locked == path = "file" /\ (orphanLock \/ connection.writer) /\ ~finalized
        seq == IF path = "file" THEN dbFile.seq ELSE 0
    IN  /\ loaded < MaxLoads
        /\ hasBackend
        /\ op' = "load"
        /\ dbFile' = IF path = "file" THEN [dbFile EXCEPT !.exists = TRUE] ELSE dbFile
        /\ IF locked
           THEN \* sqlite3.OperationalError: database is locked
                /\ outcome' = "OperationalError"
                /\ connection' = [open |-> TRUE, rows |-> {}, seq |-> seq, writer |-> FALSE]
                /\ orphanLock' = TRUE
                /\ loaded' = loaded
           ELSE /\ outcome' = "ok"
                /\ connection' = [open |-> TRUE,
                                  rows |-> {InsertedRow(rows[k], seq, k) : k \in 1..Len(rows)},
                                  seq |-> seq + Len(rows),
                                  writer |-> TRUE]
                /\ orphanLock' = FALSE
                /\ loaded' = loaded + 1
        /\ UNCHANGED <<path, hasBackend, source, keywords, results, nameVars, frameVars>>

\* The garbage collector finalizes the unreachable connection between two
\* calls: its transaction is rolled back and the write lock released.
Finalize ==
    /\ orphanLock
    /\ orphanLock' = FALSE
    /\ UNCHANGED <<path, hasBackend, source, dbFile, connection, loaded,
                   op, outcome, keywords, results, nameVars, frameVars>>

\* search(*keywords)
Search ==
    LET keywords_or == KeywordsOr(keywords)
        T == Visible(connection)
    IN  /\ op' = "search"
        /\ IF ~connection.open
           THEN \* self.connection was never assigned
                outcome' = "AttributeError" /\ results' = <<>>
           ELSE IF \E r \in T : WhereRaises(keywords_or, r)
           THEN \* sqlite3.OperationalError: user-defined function raised exception
                outcome' = "OperationalError" /\ results' = <<>>
           ELSE outcome' = "ok" /\ results' = FetchAll(keywords_or, T)
        /\ UNCHANGED <<path, hasBackend, source, dbFile, connection, orphanLock, loaded,
                       keywords, nameVars, frameVars>>

CatalogNext ==
    \/ LoadHttpError
    \/ LoadNoBackend
    \/ \E finalized \in BOOLEAN : LoadRows(finalized)
    \/ Finalize
    \/ Search

\* ------------------------------------------------------------------ CSVContents.dataset_name
\* Bytes of a metadata blob: letters, the delimiter, the quote character,
\* the two line breaks, and a byte that is not valid UTF-8.
ByteSamples == {"a", "b", ",", "\"", "\n", "\r", "xFF"}

\* Blobs of at most n bytes.
Blobs(n) == UNION {[1..k -> ByteSamples] : k \in 0..n}

\* Positions of the separator in s.
Breaks(s) == {i \in 1..Len(s) : s[i] = "\n"}

\* The k-th smallest member of a set of numbers.
Nth(S, k) == CHOOSE x \in S : Cardinality({y \in S : y < x}) = k - 1

\* bytes.split(b"\n", maxsplit): the blob cut at its first maxsplit line
\* breaks, the remainder kept whole as the last segment.
Split(s, maxsplit) ==
    LET n == IF Cardinality(Breaks(s)) < maxsplit THEN Cardinality(Breaks(s)) ELSE maxsplit
        cut(k) == IF k = 0 THEN 0 ELSE IF k = n + 1 THEN Len(s) + 1 ELSE Nth(Breaks(s), k)
    IN  [k \in 1..(n + 1) |-> SubSeq(s, cut(k - 1) + 1, cut(k) - 1)]

\* bytes.decode("utf-8") raises UnicodeDecodeError on an invalid byte; every
\* other byte of the samples is the character of the same code.
DecodeFails(bytes) == \E i \in 1..Len(bytes) : bytes[i] = "xFF"

\* The end-of-line marker the csv reader feeds itself after each line.
EOL == "EOL"

\* One character through the csv reader's state machine (dialect excel:
\* delimiter ",", quotechar '"', doublequote, not strict).
CsvChar(st, c) ==
    LET save == [st EXCEPT !.fields = st.fields \o <<st.field>>, !.field = <<>>]
        add == [st EXCEPT !.field = st.field \o <<c>>]
        ends == c \in {"\n", "\r", EOL}
        after == IF c = EOL THEN "START_RECORD" ELSE "EAT_CRNL"
        startField ==
            IF ends THEN [save EXCEPT !.state = after]
            ELSE IF c = "\"" THEN [st EXCEPT !.state = "IN_QUOTED_FIELD"]
            ELSE IF c = "," THEN save
            ELSE [add EXCEPT !.state = "IN_FIELD"]
    IN  CASE st.state = "START_RECORD" ->
                 IF c = EOL THEN st
                 ELSE IF ends THEN [st EXCEPT !.state = "EAT_CRNL"]
                 ELSE startField
          [] st.state = "START_FIELD" -> startField
          [] st.state = "IN_FIELD" ->
                 IF ends THEN [save EXCEPT !.state = after]
                 ELSE IF c = "," THEN [save EXCEPT !.state = "START_FIELD"]
                 ELSE add
          [] st.state = "IN_QUOTED_FIELD" ->
                 IF c = EOL THEN st
                 ELSE IF c = "\"" THEN [st EXCEPT !.state = "QUOTE_IN_QUOTED_FIELD"]
                 ELSE add
          [] st.state = "QUOTE_IN_QUOTED_FIELD" ->
                 IF c = "\"" THEN [add EXCEPT !.state = "IN_QUOTED_FIELD"]
                 ELSE IF c = "," THEN [save EXCEPT !.state = "START_FIELD"]
                 ELSE IF ends THEN [save EXCEPT !.state = after]
                 ELSE [add EXCEPT !.state = "IN_FIELD"]
          [] st.state = "EAT_CRNL" ->
                 IF c \in {"\n", "\r"} THEN st
                 ELSE IF c = EOL THEN [st EXCEPT !.state = "START_RECORD"]
                 ELSE [st EXCEPT !.state = "ERROR"]
          [] OTHER -> st

RECURSIVE CsvRun(_, _)
CsvRun(st, line) ==
    IF line = <<>> THEN st ELSE CsvRun(CsvChar(st, Head(line)), Tail(line))

\* next(csv.reader([line])): the fields of the record, or csv.Error.  A
\* quoted field still open when the lines run out is closed as it stands.
CsvRecord(line) ==
    LET st == CsvRun([state |-> "START_RECORD", fields |-> <<>>, field |-> <<>>],
                     line \o <<EOL>>)
    IN  IF st.state = "ERROR" THEN [ok |-> FALSE, fields |-> <<>>]
        ELSE IF st.state = "START_RECORD" THEN [ok |-> TRUE, fields |-> st.fields]
        ELSE [ok |-> TRUE, fields |-> st.fields \o <<st.field>>]

\* dataset_name read from the first segment instead of the second.
DatasetNameOfFirstLine(blob) ==
    LET lines == Split(blob, 2)
        record == CsvRecord(lines[1])
    IN  IF Len(lines) < 2 THEN [outcome |-> "StopIteration", value |-> None]
        ELSE IF DecodeFails(lines[1]) THEN [outcome |-> "UnicodeDecodeError", value |-> None]
        ELSE IF ~record.ok THEN [outcome |-> "csv.Error", value |-> None]
        ELSE IF record.fields = <<>> THEN [outcome |-> "IndexError", value |-> None]
        ELSE [outcome |-> "ok", value |-> record.fields[1]]

\* The body of dataset_name: the first field of the second segment, or the
\* exception raised on the way.
DatasetNameOf(blob) ==
    LET lines == Split(blob, 2)
        record == CsvRecord(lines[2])
    IN  IF Len(lines) < 2 THEN [outcome |-> "StopIteration", value |-> None]
        ELSE IF DecodeFails(lines[2]) THEN [outcome |-> "UnicodeDecodeError", value |-> None]
        ELSE IF ~record.ok THEN [outcome |-> "csv.Error", value |-> None]
        ELSE IF record.fields = <<>> THEN [outcome |-> "IndexError", value |-> None]
        ELSE [outcome |-> "ok", value |-> record.fields[1]]

\* A first access of dataset_name, or one after a failed access: the body
\* runs, and cached_property keeps the value it returns.
DatasetNameCompute ==
    LET r == DatasetNameOf(metadata)
    IN  /\ nameCache = None
        /\ nameOutcome' = r.outcome
        /\ name' = r.value
        /\ nameCache' = r.value
        /\ UNCHANGED <<metadata, catalogVars, frameVars>>

\* A later access: the cached value, the body not run again.
DatasetNameCached ==
    /\ nameCache # None
    /\ nameOutcome' = "ok"
    /\ name' = nameCache
    /\ UNCHANGED <<metadata, nameCache, catalogVars, frameVars>>

NameNext == DatasetNameCompute \/ DatasetNameCached

\* ------------------------------------------------------------------ CSVContents.get_df_*
\* Values of a data frame: a calendar date, or text.
Date(y, m, d) == [kind |-> "date", year |-> y, month |-> m, day |-> d]
Str(t) == [kind |-> "str", text |-> t]

\* A frame and a table of no columns and no rows.
NoFrame == [columns |-> <<>>, rows |-> <<>>]
NoTable == [header |-> <<>>, rows |-> <<>>]

Digits == {"0", "1", "2", "3", "4", "5", "6", "7", "8", "9"}
DigitVal(c) ==
    CASE c = "1" -> 1 [] c = "2" -> 2 [] c = "3" -> 3 [] c = "4" -> 4 [] c = "5" -> 5
      [] c = "6" -> 6 [] c = "7" -> 7 [] c = "8" -> 8 [] c = "9" -> 9 [] OTHER -> 0

\* A cell the CSV readers infer to be an integer.
IsNumber(t) == t # <<>> /\ \A i \in 1..Len(t) : t[i] \in Digits

\* int(t) for a string of digits.
RECURSIVE Num(_)
Num(t) == IF t = <<>> THEN 0 ELSE 10 * Num(SubSeq(t, 1, Len(t) - 1)) + DigitVal(t[Len(t)])

\* str(int(t)): the digits without leading zeros.
RECURSIVE StripZeros(_)
StripZeros(t) == IF Len(t) > 1 /\ t[1] = "0" THEN StripZeros(Tail(t)) ELSE t

\* read_csv gives a column the integer type when every cell of it is an
\* integer, and the string type otherwise.
ColumnIsInt(cells) == cells # <<>> /\ \A i \in 1..Len(cells) : IsNumber(cells[i])

\* The text of a cell's value, as str(), an f-string or pl.format render it.
CellStr(cells, i) == IF ColumnIsInt(cells) THEN StripZeros(cells[i]) ELSE cells[i]

\* The pieces of t between its "-".
Pieces(t) ==
    LET dash == {i \in 1..Len(t) : t[i] = "-"}
        n == Cardinality(dash)
        cut(k) == IF k = 0 THEN 0 ELSE IF k = n + 1 THEN Len(t) + 1 ELSE Nth(dash, k)
    IN  [k \in 1..(n + 1) |-> SubSeq(t, cut(k - 1) + 1, cut(k) - 1)]

DaysIn(y, m) ==
    IF m = 2 THEN (IF (y % 4 = 0 /\ y % 100 # 0) \/ y % 400 = 0 THEN 29 ELSE 28)
    ELSE IF m \in {4, 6, 9, 11} THEN 30 ELSE 31

\* pd.to_datetime / cast(pl.Date) of year-month-day text, month and day of
\* one or two digits: the date, or no date (the conversion raises).
ParsesAsDate(t) ==
    LET p == Pieces(t)
    IN  /\ Len(p) = 3
        /\ IsNumber(p[1]) /\ Len(p[1]) = 4
        /\ IsNumber(p[2]) /\ Len(p[2]) <= 2 /\ Num(p[2]) \in 1..12
        /\ IsNumber(p[3]) /\ Len(p[3]) <= 2 /\ Num(p[3]) \in 1..DaysIn(Num(p[1]), Num(p[2]))
ParseDate(t) == LET p == Pieces(t) IN Date(Num(p[1]), Num(p[2]), Num(p[3]))

\* Series.str.replace(r".*/", "", regex=True): what follows the last slash.
AfterLastSlash(t) ==
    LET slash == {i \in 1..Len(t) : t[i] = "/"}
    IN  IF slash = {} THEN t ELSE Drop(t, Nth(slash, Cardinality(slash)))

\* str.replace(r".*/(\d{4})", "${1}-3-31"): everything up to the last slash
\* that four digits follow is replaced, with those digits, by the digits
\* and "-3-31"; what follows them stays.
FiscalReplace(t) ==
    LET hit == {i \in 1..Len(t) : /\ t[i] = "/"
                                  /\ i + 4 <= Len(t)
                                  /\ \A j \in (i + 1)..(i + 4) : t[j] \in Digits}
        i == Nth(hit, Cardinality(hit))
    IN  IF hit = {} THEN t
        ELSE SubSeq(t, i + 1, i + 4) \o <<"-", "3", "-", "3", "1">> \o Drop(t, i + 4)

\* The cells of column k, and the position of a column in the header.
ColumnCells(t, k) == [i \in 1..Len(t.rows) |-> t.rows[i][k]]
ColumnAt(header, c) == CHOOSE k \in 1..Len(header) : header[k] = c
HasColumn(header, c) == \E k \in 1..Len(header) : header[k] = c

\* The frame read from the table, every cell still text, with the columns
\* added and REF_DATE (if refDate is given) replaced row by row.
Frame(t, indicator, refDate, added, period) ==
    [columns |-> t.header \o <<"INDICATOR">> \o added,
     rows |-> [i \in 1..Len(t.rows) |->
                 [c \in {t.header[k] : k \in 1..Len(t.header)} \cup {"INDICATOR"}
                        \cup {added[k] : k \in 1..Len(added)} |->
                     IF c = "INDICATOR" THEN Str(indicator)
                     ELSE IF c = "REF_PERIOD" /\ added # <<>> THEN Str(period)
                     ELSE IF c = "REF_DATE" /\ refDate # <<>> THEN refDate[i]
                     ELSE Str(t.rows[i][ColumnAt(t.header, c)])]]]

\* The rule the length of str(df.iloc[0, 0]) / str(df[0, 0]) selects.
RuleOf(ref_date) ==
    IF Len(ref_date) = 4 THEN "year"
    ELSE IF Len(ref_date) = 7 THEN "month"
    ELSE IF Len(ref_date) = 9 THEN "fiscal"
    ELSE "other"

\* get_df_pandas past the dataset name: [outcome, frame].
PandasFrame(t, indicator) ==
    LET first == ColumnCells(t, 1)
        rule == RuleOf(CellStr(first, 1))
        k == ColumnAt(t.header, "REF_DATE")
        cells == ColumnCells(t, k)
        text(i) ==
            CASE rule = "year" -> CellStr(cells, i) \o <<"-", "1", "-", "1">>
              [] rule = "month" -> CellStr(cells, i) \o <<"-", "1">>
              [] rule = "fiscal" -> AfterLastSlash(cells[i]) \o <<"-", "3", "-", "3", "1">>
              [] OTHER -> CellStr(cells, i)
        added == IF rule = "fiscal" THEN <<"REF_PERIOD">> ELSE <<>>
    IN  IF t.rows = <<>> THEN [outcome |-> "IndexError", frame |-> NoFrame]
        ELSE IF ~HasColumn(t.header, "REF_DATE") THEN [outcome |-> "KeyError", frame |-> NoFrame]
        ELSE IF rule = "fiscal" /\ ColumnIsInt(cells)
        THEN [outcome |-> "AttributeError", frame |-> NoFrame]
        ELSE IF \E i \in 1..Len(cells) : ~ParsesAsDate(text(i))
        THEN [outcome |-> "ValueError", frame |-> NoFrame]
        ELSE [outcome |-> "ok",
              frame |-> Frame(t, indicator, [i \in 1..Len(cells) |-> ParseDate(text(i))],
                              added, <<"F", "i", "s", "c", "a", "l", " ", "y", "e", "a", "r">>)]

\* get_df_polars past the dataset name: [outcome, frame].
PolarsFrame(t, indicator) ==
    LET first == ColumnCells(t, 1)
        rule == RuleOf(CellStr(first, 1))
        k == ColumnAt(t.header, "REF_DATE")
        cells == ColumnCells(t, k)
        text(i) ==
            CASE rule = "year" -> CellStr(cells, i) \o <<"-", "1", "-", "1">>
              [] rule = "month" -> CellStr(cells, i) \o <<"-", "1">>
              [] OTHER -> FiscalReplace(cells[i])
        added == IF rule = "fiscal" THEN <<"REF_PERIOD">> ELSE <<>>
    IN  IF t.rows = <<>> THEN [outcome |-> "IndexError", frame |-> NoFrame]
        ELSE IF rule = "other"
        THEN \* no expression for REF_DATE: the column, if any, stays as read
             [outcome |-> "ok", frame |-> Frame(t, indicator, <<>>, added, <<>>)]
        ELSE IF ~HasColumn(t.header, "REF_DATE")
        THEN [outcome |-> "ColumnNotFoundError", frame |-> NoFrame]
        ELSE IF rule = "fiscal" /\ ColumnIsInt(cells)
        THEN [outcome |-> "SchemaError", frame |-> NoFrame]
        ELSE IF \E i \in 1..Len(cells) : ~ParsesAsDate(text(i))
        THEN [outcome |-> "InvalidOperationError", frame |-> NoFrame]
        ELSE [outcome |-> "ok",
              frame |-> Frame(t, indicator, [i \in 1..Len(cells) |-> ParseDate(text(i))],
                              added, <<"F", "i", "s", "c", "a", "l", " ", "Y", "e", "a", "r">>)]

\* self.dataset_name as the two methods read it: the cached value, or the
\* body's result.
NameRead ==
    IF nameCache # None THEN [outcome |-> "ok", value |-> nameCache]
    ELSE DatasetNameOf(metadata)

\* get_df_pandas()
GetDfPandas ==
    LET n == NameRead
        r == PandasFrame(table, n.value)
    IN  /\ entry' = "pandas"
        /\ nameOutcome' = n.outcome /\ name' = n.value /\ nameCache' = n.value
        /\ IF n.outcome # "ok"
           THEN dfOutcome' = n.outcome /\ df' = NoFrame
           ELSE dfOutcome' = r.outcome /\ df' = r.frame
        /\ UNCHANGED <<metadata, table, catalogVars>>

\* get_df_polars()
GetDfPolars ==
    LET n == NameRead
        r == PolarsFrame(table, n.value)
    IN  /\ entry' = "polars"
        /\ nameOutcome' = n.outcome /\ name' = n.value /\ nameCache' = n.value
        /\ IF n.outcome # "ok"
           THEN dfOutcome' = n.outcome /\ df' = NoFrame
           ELSE dfOutcome' = r.outcome /\ df' = r.frame
        /\ UNCHANGED <<metadata, table, catalogVars>>

FrameNext == GetDfPandas \/ GetDfPolars

\* Cells of the first column of a data table: reference periods under
\* REF_DATE, anything under another header.
RefDateSamples ==
    { <<"2", "0", "2", "1">>, <<"2", "0", "2", "1", "-", "0", "1">>,
      <<"2", "0", "1", "9", "/", "2", "0", "2", "0">>,
      <<"2", "0", "2", "1", "-", "0", "1", "-", "1", "5">>,
      <<"2", "0", "2", "1", "-", "1", "3">> }
OtherSamples == { <<"C", "a", "n", "a", "d", "a">>, <<"2", "0", "2", "1">> }
HeaderSamples == { <<"REF_DATE", "VALUE">>, <<"GEO", "VALUE">> }
FirstCells(header) == IF header[1] = "REF_DATE" THEN RefDateSamples ELSE OtherSamples

\* The sidecars of a data table: one naming the dataset, one of a single line.
MetadataSamples == { <<"a", ",", "b", "\n", "b", "a", ",", "a">>, <<"a", ",", "b">> }

\* ------------------------------------------------------------------ specifications
\* MetadataDatabase(path) on a path holding no database yet, over one source,
\* with the keywords of this run; then any sequence of load() and search().
CatalogInit ==
    /\ path \in {"file", "memory"}
    /\ hasBackend \in BOOLEAN
    /\ source \in SourceSamples
    /\ keywords \in KeywordSeqs(KeywordSamples, MaxKeywords)
    /\ dbFile = [exists |-> FALSE, rows |-> {}, seq |-> 0]
    /\ connection = NoConnection
    /\ orphanLock = FALSE
    /\ loaded = 0
    /\ op = "new"
    /\ outcome = "ok"
    /\ results = <<>>
    /\ metadata = <<>> /\ nameCache = None /\ nameOutcome = "none" /\ name = None
    /\ table = NoTable /\ entry = "none" /\ dfOutcome = "none" /\ df = NoFrame

SpecCatalog == CatalogInit /\ [][CatalogNext]_vars

\* The same store over the source of the catalogue example.
ExampleInit ==
    /\ path \in {"file", "memory"}
    /\ hasBackend \in BOOLEAN
    /\ source = ExampleSource
    /\ keywords \in KeywordSeqs(ExampleKeywords, MaxKeywords)
    /\ dbFile = [exists |-> FALSE, rows |-> {}, seq |-> 0]
    /\ connection = NoConnection
    /\ orphanLock = FALSE
    /\ loaded = 0
    /\ op = "new"
    /\ outcome = "ok"
    /\ results = <<>>
    /\ metadata = <<>> /\ nameCache = None /\ nameOutcome = "none" /\ name = None
    /\ table = NoTable /\ entry = "none" /\ dfOutcome = "none" /\ df = NoFrame

SpecExample == ExampleInit /\ [][CatalogNext]_vars

\* CSVContents over one metadata blob; dataset_name is accessed any number
\* of times.
NameInit ==
    /\ metadata \in Blobs(MaxBlobLen)
    /\ nameCache = None /\ nameOutcome = "none" /\ name = None
    /\ path = "memory" /\ hasBackend = TRUE /\ source = <<>> /\ keywords = <<>>
    /\ dbFile = [exists |-> FALSE, rows |-> {}, seq |-> 0]
    /\ connection = NoConnection /\ orphanLock = FALSE /\ loaded = 0
    /\ op = "new" /\ outcome = "ok" /\ results = <<>>
    /\ table = NoTable /\ entry = "none" /\ dfOutcome = "none" /\ df = NoFrame

SpecName == NameInit /\ [][NameNext]_vars

\* CSVContents over one data table and one sidecar; the two get_df methods
\* are called any number of times.
FrameInit ==
    /\ \E header \in HeaderSamples : \E n \in 0..MaxRows :
          \E cells \in [1..n -> FirstCells(header)] :
              table = [header |-> header, rows |-> [i \in 1..n |-> <<cells[i], <<"7">>>>]]
    /\ metadata \in MetadataSamples
    /\ nameCache = None /\ nameOutcome = "none" /\ name = None
    /\ entry = "none" /\ dfOutcome = "none" /\ df = NoFrame
    /\ path = "memory" /\ hasBackend = TRUE /\ source = <<>> /\ keywords = <<>>
    /\ dbFile = [exists |-> FALSE, rows |-> {}, seq |-> 0]
    /\ connection = NoConnection /\ orphanLock = FALSE /\ loaded = 0
    /\ op = "new" /\ outcome = "ok" /\ results = <<>>

SpecFrame == FrameInit /\ [][FrameNext]_vars

\* ------------------------------------------------------------------ catalogue claims
\* The catalogue entry a stored row holds.
Entry(r) ==
    [title |-> r.title, id |-> r.data_id, description |-> r.description,
     release_date |-> r.release_date, lang |-> r.lang]

\* The rows the store holds, as search() sees them.
Stored == Visible(connection)

\* The last call was a search on a store with a connection.
Searched == op = "search" /\ connection.open

\* An item contains a match of the regular expression p; null never does.
Contains(p, item) == item # None /\ ReSearch(p, item)

\* The stored rows whose title or description contains a match of kw1|...|kwN.
Matching == {r \in Stored : Contains(Join(keywords), r.title)
                            \/ Contains(Join(keywords), r.description)}

\* results holds exactly the entries of the rows in R, each as often as R has it.
ExactlyEntriesOf(R) ==
    /\ Len(results) = Cardinality(R)
    /\ \A r \in R : Cardinality({i \in 1..Len(results) : results[i] = Entry(r)})
                    = Cardinality({q \in R : Entry(q) = Entry(r)})

\* C1 (as claimed): after k successful loads of a source of N titled rows,
\* the latest of them among the k, a search that matches every entry (no
\* keywords) returns k*N entries.
C1_LoadsAccumulate ==
    (/\ op = "search" /\ outcome = "ok" /\ keywords = <<>>
     /\ connection.writer
     /\ \A i \in 1..Len(source) : source[i][1] # <<>>)
    => Len(results) = loaded * Len(source)

\* C2 (as claimed): a search on a store on which no load has run returns an
\* empty result and does not fail.
C2_SearchOnEmptyStore ==
    (op = "search" /\ loaded = 0) => (outcome = "ok" /\ results = <<>>)

HousingEntry == Entry(InsertedRow(ReadRows(ExampleSource)[1], 0, 1))
PopulationEntry == Entry(InsertedRow(ReadRows(ExampleSource)[2], 0, 2))
ExampleLoaded == Searched /\ outcome = "ok" /\ Cardinality(Stored) = 2

\* C4 (as claimed): on the store holding "Housing Starts" and "Population",
\* search("housing") returns the first entry, search("zzz") nothing and
\* search("housing", "population") both entries in insertion order.
C4_ExampleLowerCase ==
    ExampleLoaded =>
        /\ keywords = <<<<"h", "o", "u", "s", "i", "n", "g">>>>
               => results = <<HousingEntry>>
        /\ keywords = <<<<"z", "z", "z">>>> => results = <<>>
        /\ keywords = <<<<"h", "o", "u", "s", "i", "n", "g">>,
                        <<"p", "o", "p", "u", "l", "a", "t", "i", "o", "n">>>>
               => results = <<HousingEntry, PopulationEntry>>

\* C4 (amended): on that store search("Housing") returns exactly the first
\* entry, search("zzz") returns nothing and search("Housing", "Population")
\* returns both entries in insertion order; the lower-case keywords
\* "housing" and "population" match neither title, so search("housing") and
\* search("housing", "population") return nothing.
C4_ExampleCaseSensitive ==
    ExampleLoaded =>
        /\ keywords = <<<<"H", "o", "u", "s", "i", "n", "g">>>>
               => results = <<HousingEntry>>
        /\ keywords = <<<<"z", "z", "z">>>> => results = <<>>
        /\ keywords = <<<<"H", "o", "u", "s", "i", "n", "g">>,
                        <<"P", "o", "p", "u", "l", "a", "t", "i", "o", "n">>>>
               => results = <<HousingEntry, PopulationEntry>>
        /\ keywords = <<<<"h", "o", "u", "s", "i", "n", "g">>>> => results = <<>>
        /\ keywords = <<<<"h", "o", "u", "s", "i", "n", "g">>,
                        <<"p", "o", "p", "u", "l", "a", "t", "i", "o", "n">>>>
               => results = <<>>

\* C4 witness: the example store answered search("Housing", "Population").
C4_Witness ==
    /\ ExampleLoaded
    /\ keywords = <<<<"H", "o", "u", "s", "i", "n", "g">>,
                    <<"P", "o", "p", "u", "l", "a", "t", "i", "o", "n">>>>
    /\ results = <<HousingEntry, PopulationEntry>>

\* C5: load gives the rows it inserts sequential _ids in source order, and a
\* search returns entries in ascending _id: results lists the entries of
\* stored rows picked with strictly increasing _id.
C5_ResultsInInsertionOrder ==
    /\ connection.open =>
         /\ {r._id : r \in Stored} = 1..Cardinality(Stored)
         /\ \A r \in connection.rows :
                Entry(r) = Entry(InsertedRow(ReadRows(source)[r._id], 0, r._id))
    /\ (Searched /\ outcome = "ok") =>
         \E f \in [1..Len(results) -> {r._id : r \in Stored}] :
             /\ \A i \in 1..Len(results) : \A j \in 1..Len(results) : i < j => f[i] < f[j]
             /\ \A i \in 1..Len(results) :
                    \E r \in Stored : r._id = f[i] /\ results[i] = Entry(r)

\* C5 witness: a search after two loads returned two different entries.
C5_Witness ==
    /\ Searched /\ outcome = "ok" /\ loaded >= 2
    /\ Len(results) >= 2 /\ results[1] # results[2]

\* C6 (as claimed): with no keywords the result contains every stored entry.
C6_NoKeywordsReturnsAll ==
    (Searched /\ keywords = <<>>) =>
        (outcome = "ok" /\ Len(results) = Cardinality(Stored))

\* C6 (amended): with no keywords the pattern built is "()" and the result
\* contains every stored entry that has a title or a description; an entry
\* whose title and description are both null is left out.
C6_NoKeywordsReturnsNonNull ==
    (Searched /\ keywords = <<>>) =>
        /\ KeywordsOr(keywords) = <<"(", ")">>
        /\ outcome = "ok"
        /\ ExactlyEntriesOf({r \in Stored : r.title # None \/ r.description # None})

\* C6 witness: a search with no keywords returned entries and left a stored
\* entry out.
C6_Witness ==
    /\ Searched /\ keywords = <<>> /\ outcome = "ok"
    /\ results # <<>> /\ Len(results) < Cardinality(Stored)

\* ------------------------------------------------------------------ CSVContents claims
\* The raw REF_DATE cell of data row i, and the part of t from a to b.
RawRefDate(i) == table.rows[i][ColumnAt(table.header, "REF_DATE")]
Mid(t, a, b) == SubSeq(t, a, IF b > Len(t) THEN Len(t) ELSE b)

\* What follows the slash of a fiscal year pair (the text itself if it has none).
RECURSIVE AfterSlash(_)
AfterSlash(t) ==
    IF \A i \in 1..Len(t) : t[i] # "/" THEN t ELSE AfterSlash(Tail(t))

\* The date the rule selected by the first row's REF_DATE gives a raw value.
ClaimedDate(first, raw) ==
    IF Len(first) = 4 THEN Date(Num(Mid(raw, 1, 4)), 1, 1)
    ELSE IF Len(first) = 7 THEN Date(Num(Mid(raw, 1, 4)), Num(Mid(raw, 6, 7)), 1)
    ELSE IF Len(first) = 9 THEN Date(Num(AfterSlash(raw)), 3, 31)
    ELSE Date(Num(Mid(raw, 1, 4)), Num(Mid(raw, 6, 7)), Num(Mid(raw, 9, 10)))

\* A get_df call returned a frame of a table that has a REF_DATE column.
Normalized == dfOutcome = "ok" /\ HasColumn(table.header, "REF_DATE")

\* Every REF_DATE value of the table has the length of the first row's: the
\* homogeneity the rule selection assumes.
Homogeneous == \A i \in 1..Len(table.rows) : Len(RawRefDate(i)) = Len(RawRefDate(1))

\* C7 (as claimed): after normalization, by get_df_pandas and get_df_polars
\* alike, REF_DATE is in every row the calendar date built by the rule the
\* length of the first row's REF_DATE selects, never the raw string (stated
\* for tables whose REF_DATE values all have that length).
C7_RefDateIsADate ==
    (Normalized /\ Homogeneous) =>
        \A i \in 1..Len(df.rows) :
            df.rows[i]["REF_DATE"] = ClaimedDate(RawRefDate(1), RawRefDate(i))

\* C8 (as claimed): the normalized table has a REF_PERIOD column exactly on
\* the fiscal-year path, and then every row's REF_PERIOD is "Fiscal Year",
\* for get_df_pandas and get_df_polars alike.
C8_RefPeriodIsFiscalYear ==
    Normalized =>
        /\ HasColumn(df.columns, "REF_PERIOD") <=> Len(RawRefDate(1)) = 9
        /\ HasColumn(df.columns, "REF_PERIOD") =>
              \A i \in 1..Len(df.rows) :
                  df.rows[i]["REF_PERIOD"] = Str(<<"F", "i", "s", "c", "a", "l", " ", "Y", "e", "a", "r">>)

\* C9 (as claimed): normalizing a table that lacks a REF_DATE column, or that
\* has no data rows, ends in an error and never returns a table.
C9_NoRefDateOrNoRowsFails ==
    (entry # "none" /\ (~HasColumn(table.header, "REF_DATE") \/ table.rows = <<>>))
        => dfOutcome # "ok"

\* The line breaks of the metadata blob and its second line: what lies
\* between the first line break and the next one, or the end of the blob.
LineBreaks == {i \in 1..Len(metadata) : metadata[i] = "\n"}
SecondLine ==
    LET first == CHOOSE i \in LineBreaks : \A j \in LineBreaks : i <= j
        later == {j \in LineBreaks : j > first} \cup {Len(metadata) + 1}
        next == CHOOSE i \in later : \A j \in later : i <= j
    IN  SubSeq(metadata, first + 1, next - 1)

\* C10: when the blob has at least two lines and the second CSV-decodes to at
\* least one field, dataset_name returns exactly that first field; otherwise
\* (fewer than two lines, a second line that cannot be decoded, or one that
\* holds no field) it raises instead of returning a name.
C10_DatasetNameIsFirstFieldOfSecondLine ==
    nameOutcome # "none" =>
        IF /\ LineBreaks # {}
           /\ ~DecodeFails(SecondLine)
           /\ CsvRecord(SecondLine).ok
           /\ CsvRecord(SecondLine).fields # <<>>
        THEN nameOutcome = "ok" /\ name = CsvRecord(SecondLine).fields[1]
        ELSE nameOutcome # "ok" /\ name = None

\* C10 witness: a name was returned that is not empty, from a blob whose
\* header line is not empty either.
C10_Witness ==
    /\ nameOutcome = "ok" /\ name # <<>>
    /\ metadata[1] # "\n"
    /\ Cardinality(LineBreaks) = 1

====
